---- MODULE Spec2Model ----
(***************************************************************************)
(* Verification model of the LCARS system monitor's resilience pipeline:   *)
(* the Timeout Guard (withTimeout), the collector orchestrator             *)
(* (MetricsRepository.getSystemMetrics) and the history and status service *)
(* (SystemMonitorService.getCurrentMetrics).                               *)
(***************************************************************************)
EXTENDS Integers, Sequences, FiniteSets, TLC

VARIABLES
    lastKnown,      \* MetricsRepository._lastKnown
    pc,             \* where the getSystemMetrics call stands
    calls,          \* number of getSystemMetrics calls started so far
    behaviour,      \* what each collector did in the call (its input)
    metrics,        \* the mapping returned by the last completed call
    before,         \* _lastKnown as it was when the last call started
    guards,         \* the withTimeout promise of each collector of the call
    timers,         \* the keys whose guard has its setTimeout pending
    history,        \* SystemMonitorService._history
    historyIndex,   \* SystemMonitorService._historyIndex
    now,            \* the clock read by Date.now()
    snapshot,       \* what the last completed getCurrentMetrics returned
    lastOk,         \* per key, the data last returned with status 'ok'
    inserted,       \* every sample written to the ring buffer, oldest first
    clients,        \* SSEManager._clients, in insertion order
    heartbeatInterval, \* SSEManager._heartbeatInterval
    intervals,      \* the setInterval timers that have not been cleared
    written,        \* per connection, the frames its write() accepted
    registered,     \* the connections passed to addClient so far
    closed,         \* the connections that have emitted 'close'
    evicted,        \* the connections deleted after a write that raised
    payload,        \* the data of the last broadcast
    raising,        \* the connections whose write raised in the last broadcast
    delivery,       \* how the last broadcast ended
    broadcasts,     \* number of broadcast calls so far
    heartbeats,     \* number of keep-alive callbacks run so far
    eventSource,    \* SSEClient._eventSource
    transports,     \* the EventSource objects that have not been closed
    received,       \* event.data of the last message event
    notified,       \* the callbacks the last handler invoked
    delivered,      \* what onData was last handed
    retryCount,     \* SSEClient._retryCount
    backoff,        \* SSEClient._backoff
    reconnectTimeout, \* SSEClient._reconnectTimeout
    timeouts,       \* the setTimeout timers that are pending
    lastData,       \* SSEClient._lastData
    callbacks,      \* whether connect() has installed onData and onStatus
    reported,       \* the last status handed to onStatus
    last,           \* the last thing that happened to the client
    errorsInRow,    \* transport errors since the last open, frame or reconnect()
    errorsSinceFrame, \* transport errors since the last frame or reconnect()
    races,          \* the withTimeout calls made so far, each with its promise
    deadlines,      \* the setTimeout timers of withTimeout that are pending
    response,       \* what the last GET /api/metrics answered
    diskCache,      \* SystemInformationAdapter._diskCache
    fetches,        \* the getDiskUsage calls made so far
    clock,          \* Date.now() as the adapter reads it, in ms
    storedAt,       \* when _diskCache was last assigned, Null if never
    inflight,       \* the getCurrentMetrics invocations that are collecting
    started,        \* number of getCurrentMetrics invocations started
    completed,      \* the invocations that have ended, in the order they ended
    handed,         \* what the periodic driver has passed to broadcast
    driving,        \* whether the driver's setInterval timer is running
    overlaps        \* the times an invocation started while one was collecting

repository == <<lastKnown, behaviour, before, lastOk>>
guarding == <<guards, timers>>
service == <<history, historyIndex, snapshot, inserted>>
monitor ==
    <<lastKnown, pc, calls, behaviour, metrics, before, guards, timers,
      history, historyIndex, now, snapshot, lastOk, inserted>>
registry == <<clients, written, evicted>>
keepAlive == <<heartbeatInterval, intervals>>
manager ==
    <<registry, keepAlive, registered, closed, payload, raising, delivery,
      broadcasts, heartbeats>>
racing == <<races, deadlines>>
adapter == <<diskCache, fetches, clock, storedAt>>
server == <<inflight, started, completed, handed, driving, overlaps>>
browser ==
    <<eventSource, transports, retryCount, backoff, reconnectTimeout, timeouts,
      lastData, callbacks, reported, received, notified, delivered, last,
      errorsInRow, errorsSinceFrame>>

vars ==
    <<lastKnown, pc, calls, behaviour, metrics, before, guards, timers,
      history, historyIndex, now, snapshot, lastOk, inserted, manager, browser,
      races, deadlines, response, diskCache, fetches, clock, storedAt,
      inflight, started, completed, handed, driving, overlaps>>

\* ------------------------------------------------------------------------
\* Bounds
\* ------------------------------------------------------------------------
MaxCycles == 3
MaxGuardedCycles == 2
MaxSnapshots == 2
MaxMockedCalls == 1
MaxClock == 2
MaxHistoryCalls == 62
MaxBurst == 2
MaxConnections == 3
MaxBroadcasts == 1
MaxHeartbeats == 1
\* withTimeout calls in one run of the step-by-step race
MaxRaces == 2
\* getDiskUsage calls in one run
MaxDiskCalls == 3
\* how far the adapter's clock runs, in ms
MaxDiskClock == 7500
\* getCurrentMetrics invocations of the driver and the two handlers together
MaxInvocations == 3
\* getCurrentMetrics invocations in the run that fills the ring buffer
MaxOverlapCalls == 62
\* the invocations of that run's one burst that start while another is
\* collecting
MaxOverlaps == 1

\* ------------------------------------------------------------------------
\* JavaScript values
\* ------------------------------------------------------------------------
Null == [js |-> "null"]
Undefined == [js |-> "undefined"]
Num(n) == [js |-> "number", n |-> n]

\* Object.keys(collectors): insertion order of the collectors literal
keys == <<"cpu", "memory", "disk", "processes", "network", "systemInfo">>

Keys == {keys[i] : i \in 1..Len(keys)}

\* Strings are sequences of characters
KeyText(key) ==
    CASE key = "cpu" -> <<"c", "p", "u">>
      [] key = "memory" -> <<"m", "e", "m", "o", "r", "y">>
      [] key = "disk" -> <<"d", "i", "s", "k">>
      [] key = "processes" -> <<"p", "r", "o", "c", "e", "s", "s", "e", "s">>
      [] key = "network" -> <<"n", "e", "t", "w", "o", "r", "k">>
      [] key = "systemInfo" -> <<"s", "y", "s", "t", "e", "m", "I", "n", "f", "o">>

\* String.prototype.includes
Includes(s, sub) ==
    \E i \in 1..(Len(s) - Len(sub) + 1) : SubSeq(s, i, i + Len(sub) - 1) = sub

DigitChar(d) == <<"0", "1", "2", "3", "4", "5", "6", "7", "8", "9">>[d + 1]

RECURSIVE NumberText(_)
\* a non-negative integer interpolated in a template literal
NumberText(n) ==
    IF n < 10 THEN <<DigitChar(n)>>
    ELSE NumberText(n \div 10) \o <<DigitChar(n % 10)>>

\* ------------------------------------------------------------------------
\* withTimeout
\* ------------------------------------------------------------------------
GUARD_MS == 1000

\* the deadline's error worded `operation timed out after ${ms}ms`
TimedOutMessage(ms) ==
    <<"o", "p", "e", "r", "a", "t", "i", "o", "n", " ",
      "t", "i", "m", "e", "d", " ", "o", "u", "t", " ",
      "a", "f", "t", "e", "r", " ">>
    \o NumberText(ms) \o <<"m", "s">>

\* `Timeout: operation exceeded ${ms}ms`
TimeoutMessage(ms) ==
    <<"T", "i", "m", "e", "o", "u", "t", ":", " ",
      "o", "p", "e", "r", "a", "t", "i", "o", "n", " ",
      "e", "x", "c", "e", "e", "d", "e", "d", " ">>
    \o NumberText(ms) \o <<"m", "s">>

Fulfilled(v) == [status |-> "fulfilled", value |-> v]
Rejected(r) == [status |-> "rejected", reason |-> r]
Error(msg) == [message |-> msg]

\* The outcome of Promise.race([promise, timeoutPromise]): the promise's own
\* outcome when it settles before the deadline, the timer's rejection
\* otherwise.
withTimeout(promise, ms) ==
    CASE promise.kind = "fulfil" -> Fulfilled(promise.value)
      [] promise.kind = "reject" -> Rejected(promise.reason)
      [] promise.kind = "pending" -> Rejected(Error(TimeoutMessage(ms)))

\* ------------------------------------------------------------------------
\* MetricsRepository
\* ------------------------------------------------------------------------
\* x ?? null
OrNull(x) == IF x = Null \/ x = Undefined THEN Null ELSE x

\* result.reason?.message
MessageOf(reason) ==
    IF "message" \in DOMAIN reason THEN reason.message ELSE Undefined

Timeout == <<"T", "i", "m", "e", "o", "u", "t">>

\* result.reason?.message?.includes('Timeout')
IsTimeout(reason) ==
    /\ MessageOf(reason) # Undefined
    /\ Includes(MessageOf(reason), Timeout)

UnknownError == <<"U", "n", "k", "n", "o", "w", "n", " ", "e", "r", "r", "o", "r">>

\* result.reason?.message || 'Unknown error'
ErrorText(reason) ==
    IF MessageOf(reason) = Undefined \/ MessageOf(reason) = <<>>
    THEN UnknownError
    ELSE MessageOf(reason)

\* `${key} returned null`
ReturnedNull(key) ==
    KeyText(key) \o <<" ", "r", "e", "t", "u", "r", "n", "e", "d", " ", "n", "u", "l", "l">>

\* the loop body with `data: null` in place of the stored value when the
\* guarded collector was rejected
ClassifyNoFallback(key, result, lk) ==
    IF result.status = "fulfilled"
    THEN IF result.value # Null /\ result.value # Undefined
         THEN [status |-> "ok", data |-> result.value]
         ELSE [status |-> "unavailable", data |-> OrNull(lk[key]),
               error |-> ReturnedNull(key)]
    ELSE [status |-> IF IsTimeout(result.reason) THEN "degraded" ELSE "unavailable",
          data |-> Null,
          error |-> ErrorText(result.reason)]

\* One pass of the loop body: the entry written to metrics[key] for the
\* settled result of key's guarded collector, given the store lk.
Classify(key, result, lk) ==
    IF result.status = "fulfilled"
    THEN IF result.value # Null /\ result.value # Undefined
         THEN [status |-> "ok", data |-> result.value]
         ELSE [status |-> "unavailable", data |-> OrNull(lk[key]),
               error |-> ReturnedNull(key)]
    ELSE [status |-> IF IsTimeout(result.reason) THEN "degraded" ELSE "unavailable",
          data |-> OrNull(lk[key]),
          error |-> ErrorText(result.reason)]

\* the store written only while its entry is empty
\* (this._lastKnown[key] ??= result.value)
RememberOnce(key, result, lk) ==
    IF /\ result.status = "fulfilled"
       /\ result.value # Null /\ result.value # Undefined
       /\ lk[key] = Null
    THEN [lk EXCEPT ![key] = result.value]
    ELSE lk

\* the store written with whatever the collector fulfilled with, null
\* included
RememberAnything(key, result, lk) ==
    IF result.status = "fulfilled"
    THEN [lk EXCEPT ![key] = OrNull(result.value)]
    ELSE lk

\* The store after one pass of the loop body
Remember(key, result, lk) ==
    IF result.status = "fulfilled" /\ result.value # Null /\ result.value # Undefined
    THEN [lk EXCEPT ![key] = result.value]
    ELSE lk

RECURSIVE Loop(_, _, _, _)
\* for (let i = 0; i < keys.length; i++): acc holds metrics and _lastKnown
Loop(i, ks, results, acc) ==
    IF i > Len(ks) THEN acc
    ELSE Loop(i + 1, ks, results,
              [metrics |-> [k \in DOMAIN acc.metrics \cup {ks[i]} |->
                               IF k = ks[i]
                               THEN Classify(ks[i], results[i], acc.lastKnown)
                               ELSE acc.metrics[k]],
               lastKnown |-> Remember(ks[i], results[i], acc.lastKnown)])

\* keys.map((key) => withTimeout(collectors[key](), 1000)) raises when a
\* collector raises synchronously on being invoked
MapRaises(plan) == \E i \in 1..Len(keys) : plan[keys[i]].kind = "throw"

\* Promise.all-like settling: the first rejection becomes every result
AllFailFast(plan) ==
    LET settled == [i \in 1..Len(keys) |-> withTimeout(plan[keys[i]], GUARD_MS)]
        failed == {i \in 1..Len(keys) : settled[i].status = "rejected"}
    IN IF failed = {} THEN settled
       ELSE [i \in 1..Len(keys) |->
                settled[CHOOSE f \in failed : \A g \in failed : f <= g]]

\* Promise.allSettled(...): one settled result per key, in key order
AllSettled(plan) == [i \in 1..Len(keys) |-> withTimeout(plan[keys[i]], GUARD_MS)]

NoMetrics == [k \in {} |-> Null]

\* What the call makes of the collectors' behaviours
Collected(plan, lk) ==
    Loop(1, keys, AllSettled(plan), [metrics |-> NoMetrics, lastKnown |-> lk])

\* The record of what callers have seen: per key, the data of the latest
\* result that carried status 'ok'
Observed(seen, m) ==
    [k \in Keys |-> IF k \in DOMAIN m /\ m[k].status = "ok" THEN m[k].data ELSE seen[k]]

\* ------------------------------------------------------------------------
\* Collector behaviours (the inputs of a collection cycle)
\* ------------------------------------------------------------------------
\* The value object a provider reports for a key, carrying reading n
Reading(key, n) ==
    CASE key = "cpu" -> [usage |-> Num(n)]
      [] key = "memory" -> [percentage |-> Num(n)]
      [] OTHER -> [value |-> Num(n)]

Readings == {25, 50}

EIO == <<"E", "I", "O">>
NotAFunction == <<"n", "o", "t", " ", "a", " ", "f", "u", "n", "c", "t", "i", "o", "n">>

\* A reason that is no Error object (a rejection with a plain value)
PlainReason == [js |-> "string"]

Moods ==
    {"value25", "value50", "null", "undefined", "error", "timeoutError",
     "plainReason", "hang", "throw"}

Behave(key, mood) ==
    CASE mood = "value25" -> [kind |-> "fulfil", value |-> Reading(key, 25)]
      [] mood = "value50" -> [kind |-> "fulfil", value |-> Reading(key, 50)]
      [] mood = "null" -> [kind |-> "fulfil", value |-> Null]
      [] mood = "undefined" -> [kind |-> "fulfil", value |-> Undefined]
      [] mood = "error" -> [kind |-> "reject", reason |-> Error(EIO)]
      [] mood = "timeoutError" -> [kind |-> "reject", reason |-> Error(Timeout)]
      [] mood = "plainReason" -> [kind |-> "reject", reason |-> PlainReason]
      [] mood = "hang" -> [kind |-> "pending"]
      [] mood = "throw" -> [kind |-> "throw", reason |-> Error(NotAFunction)]

\* The cycles explored: every collector in one mood; or one collector in
\* any mood among healthy ones; or one healthy collector among collectors
\* that all report nothing, all fail or all hang.
Healthy == "value25"

CyclePlans ==
    {[k \in Keys |-> Behave(k, m)] : m \in Moods}
    \cup {[k \in Keys |-> Behave(k, IF k = odd THEN m ELSE Healthy)] :
              m \in Moods, odd \in Keys}
    \cup {[k \in Keys |-> Behave(k, IF k = odd THEN Healthy ELSE m)] :
              m \in {"null", "error", "hang"}, odd \in Keys}

\* ------------------------------------------------------------------------
\* SystemMonitorService
\* ------------------------------------------------------------------------
HISTORY_SIZE == 60

\* obj.name, undefined when obj has no such property
Field(obj, name) == IF name \in DOMAIN obj THEN obj[name] ELSE Undefined

\* .sort((a, b) => a.timestamp - b.timestamp): the sort is stable, so a
\* sample goes behind those with a smaller timestamp and behind those with
\* the same timestamp that stood before it
SortByTimestamp(samples) ==
    LET n == Len(samples)
        behind(j) == {l \in 1..n :
                         \/ samples[j].timestamp - samples[l].timestamp > 0
                         \/ /\ samples[j].timestamp - samples[l].timestamp = 0
                            /\ l < j}
        place == SubSeq([j \in 1..n |-> Cardinality(behind(j)) + 1], 1, n)
    IN [i \in 1..n |-> samples[CHOOSE j \in 1..n : place[j] = i]]

Truthy(slot) == slot # Null

\* this._history.filter(Boolean).sort(...)
getHistory(h) == SortByTimestamp(SelectSeq(h, Truthy))

\* the metrics whose statuses decide the global status
primary == <<"cpu", "memory", "disk", "processes">>

computeGlobalStatus(statuses) ==
    IF \A i \in 1..Len(statuses) : statuses[i] = "ok" THEN "ok"
    ELSE IF \A i \in 1..Len(statuses) : statuses[i] = "unavailable" THEN "critical"
    ELSE "degraded"

\* the statuses of all six metrics
StatusesOfAll(m) == [i \in 1..Len(keys) |-> m[keys[i]].status]

\* ['cpu', 'memory', 'disk', 'processes'].map((k) => metrics[k].status)
StatusesOf(m) == [i \in 1..Len(primary) |-> m[primary[i]].status]

\* a sample that takes whatever data the result carries
SampleOfData(m, timestamp) ==
    [cpu |-> IF m["cpu"].data # Null THEN Field(m["cpu"].data, "usage") ELSE Null,
     memory |-> IF m["memory"].data # Null
                THEN Field(m["memory"].data, "percentage") ELSE Null,
     timestamp |-> timestamp]

\* the sample pushed to the ring buffer for the repository's result m
SampleOf(m, timestamp) ==
    [cpu |-> IF m["cpu"].status = "ok" THEN Field(m["cpu"].data, "usage") ELSE Null,
     memory |-> IF m["memory"].status = "ok"
                THEN Field(m["memory"].data, "percentage") ELSE Null,
     timestamp |-> timestamp]

\* a ring one slot short
PushedShort(h, index, sample) ==
    [h EXCEPT ![(index % (HISTORY_SIZE - 1)) + 1] = sample]

\* a buffer that, once full, keeps overwriting its last slot
PushedClamped(h, index, sample) ==
    [h EXCEPT ![(IF index < HISTORY_SIZE THEN index ELSE HISTORY_SIZE - 1) + 1] = sample]

\* this._history[this._historyIndex % HISTORY_SIZE] = {...}
Pushed(h, index, sample) == [h EXCEPT ![(index % HISTORY_SIZE) + 1] = sample]

\* the object getCurrentMetrics returns
SnapshotOf(m, timestamp, h) ==
    [timestamp |-> timestamp,
     status |-> computeGlobalStatus(StatusesOf(m)),
     cpu |-> m["cpu"],
     memory |-> m["memory"],
     disk |-> m["disk"],
     processes |-> m["processes"],
     history |-> getHistory(h)]

NoSnapshot == [k \in {} |-> Null]

\* getCurrentMetrics once the repository has returned m
Enrich(m) ==
    /\ history' = Pushed(history, historyIndex, SampleOf(m, now))
    /\ historyIndex' = historyIndex + 1
    /\ snapshot' = SnapshotOf(m, now, history')
    /\ inserted' = Append(inserted, SampleOf(m, now))

\* ------------------------------------------------------------------------
\* SSEClient's constants
\* ------------------------------------------------------------------------
MAX_RETRIES == 10
MAX_BACKOFF == 30000
INITIAL_BACKOFF == 1000

\* ------------------------------------------------------------------------
\* getSystemMetrics as one step
\* ------------------------------------------------------------------------
NoPlan == [k \in Keys |-> [kind |-> "none"]]

Init ==
    /\ lastKnown = [k \in Keys |-> Null]
    /\ pc = "idle"
    /\ calls = 0
    /\ behaviour = NoPlan
    /\ metrics = NoMetrics
    /\ before = [k \in Keys |-> Null]
    /\ guards = [k \in Keys |-> [status |-> "none"]]
    /\ timers = {}
    /\ history = [i \in 1..HISTORY_SIZE |-> Null]
    /\ historyIndex = 0
    /\ now = 0
    /\ snapshot = NoSnapshot
    /\ lastOk = [k \in Keys |-> Null]
    /\ inserted = <<>>
    /\ clients = <<>>
    /\ heartbeatInterval = Null
    /\ intervals = {}
    /\ written = [c \in 1..MaxConnections |-> <<>>]
    /\ registered = {}
    /\ closed = {}
    /\ evicted = {}
    /\ payload = Undefined
    /\ raising = {}
    /\ delivery = "none"
    /\ broadcasts = 0
    /\ heartbeats = 0
    /\ eventSource = Null
    /\ transports = {}
    /\ received = <<>>
    /\ notified = {}
    /\ delivered = Undefined
    /\ retryCount = 0
    /\ backoff = INITIAL_BACKOFF
    /\ reconnectTimeout = Null
    /\ timeouts = {}
    /\ lastData = Null
    /\ callbacks = FALSE
    /\ reported = "none"
    /\ last = "constructor"
    /\ errorsInRow = 0
    /\ errorsSinceFrame = 0
    /\ races = <<>>
    /\ deadlines = {}
    /\ response = Undefined
    /\ diskCache = [data |-> Null, timestamp |-> 0]
    /\ fetches = <<>>
    /\ clock = 0
    /\ storedAt = Null
    /\ inflight = {}
    /\ started = 0
    /\ completed = <<>>
    /\ handed = <<>>
    /\ driving = TRUE
    /\ overlaps = 0

getSystemMetrics(plan) ==
    /\ calls < MaxCycles
    /\ calls' = calls + 1
    /\ behaviour' = plan
    /\ before' = lastKnown
    /\ UNCHANGED <<guarding, service, now, manager, browser, racing, adapter, server, response>>
    /\ IF MapRaises(plan)
       THEN /\ pc' = "raised"
            /\ metrics' = NoMetrics
            /\ UNCHANGED <<lastKnown, lastOk>>
       ELSE LET done == Collected(plan, lastKnown)
            IN /\ pc' = "returned"
               /\ metrics' = done.metrics
               /\ lastKnown' = done.lastKnown
               /\ lastOk' = Observed(lastOk, done.metrics)

Next == \E plan \in CyclePlans : getSystemMetrics(plan)

Spec == Init /\ [][Next]_vars

\* ------------------------------------------------------------------------
\* getSystemMetrics step by step: the guards race their collectors
\* ------------------------------------------------------------------------
IndexOf(key) == CHOOSE i \in 1..Len(keys) : keys[i] = key

\* What a collector that settles before its deadline settles with: in the
\* step-by-step model each collector settles in one way, two collectors
\* for each of the three ways a collector can settle.
Settling(key) ==
    CASE key \in {"cpu", "memory"} -> Behave(key, Healthy)
      [] key \in {"disk", "processes"} -> Behave(key, "null")
      [] key \in {"network", "systemInfo"} -> Behave(key, "error")

\* a guard that sets no timer
NeverArmed(key) == FALSE

\* setTimeout(..., ms) armed by withTimeout and neither fired nor cleared
Armed(key) == key \in timers

\* Promise.allSettled resolves once no guard is pending
NonePending(g) == \A k \in Keys : g[k].status \in {"fulfilled", "rejected"}

\* keys.map(...) runs synchronously: the collectors are invoked in key
\* order, each guard arming its timer, until one of them raises (thrower is
\* its index, 0 when none does) and the call is rejected with the guards
\* already created left behind.
Invoke(thrower) ==
    /\ pc \in {"idle", "returned", "raised"}
    /\ \A k \in Keys : guards[k].status # "pending"
    /\ calls < MaxGuardedCycles
    /\ calls' = calls + 1
    /\ before' = lastKnown
    /\ LET invoked == {k \in Keys : thrower = 0 \/ IndexOf(k) < thrower}
       IN /\ guards' = [k \in Keys |-> IF k \in invoked
                                        THEN [status |-> "pending"]
                                        ELSE [status |-> "none"]]
          /\ timers' = invoked
    /\ pc' = IF thrower = 0 THEN "collecting" ELSE "raised"
    /\ metrics' = NoMetrics
    /\ UNCHANGED <<lastKnown, behaviour, service, now, lastOk, manager, browser, racing, adapter, server, response>>

\* The collector settles first: the race takes its outcome and
\* finally() clears the timer.
Settle(key) ==
    /\ guards[key].status = "pending"
    /\ guards' = [guards EXCEPT ![key] = withTimeout(Settling(key), GUARD_MS)]
    /\ timers' = timers \ {key}
    /\ UNCHANGED <<lastKnown, pc, calls, behaviour, metrics, before, service, now, lastOk, manager, browser, racing, adapter, server, response>>

\* The timer fires first: the race is rejected with the timeout error.
Deadline(key) ==
    /\ Armed(key)
    /\ guards[key].status = "pending"
    /\ guards' = [guards EXCEPT ![key] = withTimeout([kind |-> "pending"], GUARD_MS)]
    /\ timers' = timers \ {key}
    /\ UNCHANGED <<lastKnown, pc, calls, behaviour, metrics, before, service, now, lastOk, manager, browser, racing, adapter, server, response>>

\* await Promise.allSettled(...) resumes: the loop runs and the call returns.
Return ==
    /\ pc = "collecting"
    /\ NonePending(guards)
    /\ LET done == Loop(1, keys, [i \in 1..Len(keys) |-> guards[keys[i]]],
                        [metrics |-> NoMetrics, lastKnown |-> lastKnown])
       IN /\ metrics' = done.metrics
          /\ lastKnown' = done.lastKnown
          /\ lastOk' = Observed(lastOk, done.metrics)
    /\ pc' = "returned"
    /\ UNCHANGED <<calls, behaviour, before, guards, timers, service, now, manager, browser, racing, adapter, server, response>>

NextGuarded ==
    \/ \E thrower \in 0..Len(keys) : Invoke(thrower)
    \/ \E k \in Keys : Settle(k)
    \/ \E k \in Keys : Deadline(k)
    \/ Return

\* Timers that are due fire and a resolved await resumes.
SpecGuarded ==
    /\ Init
    /\ [][NextGuarded]_vars
    /\ \A k \in Keys : WF_vars(Deadline(k))
    /\ WF_vars(Return)

\* ------------------------------------------------------------------------
\* getCurrentMetrics over the repository
\* ------------------------------------------------------------------------
\* The cycles of the service: every collector in one mood, or one collector
\* in any mood among healthy ones
ServicePlans ==
    {[k \in Keys |-> Behave(k, m)] : m \in Moods}
    \cup {[k \in Keys |-> Behave(k, IF k = odd THEN m ELSE Healthy)] :
              m \in Moods, odd \in Keys}

getCurrentMetrics(plan) ==
    /\ calls < MaxSnapshots
    /\ calls' = calls + 1
    /\ behaviour' = plan
    /\ before' = lastKnown
    /\ UNCHANGED <<guarding, now, manager, browser, racing, adapter, server>>
    /\ IF MapRaises(plan)
       THEN /\ pc' = "raised"
            /\ metrics' = NoMetrics
            /\ UNCHANGED <<lastKnown, service, lastOk>>
       ELSE LET done == Collected(plan, lastKnown)
            IN /\ pc' = "returned"
               /\ metrics' = done.metrics
               /\ lastKnown' = done.lastKnown
               /\ lastOk' = Observed(lastOk, done.metrics)
               /\ Enrich(done.metrics)

\* Time passes between calls
Tick ==
    /\ now < MaxClock
    /\ now' = now + 1
    /\ UNCHANGED <<lastKnown, pc, calls, behaviour, metrics, before, guarding, service, lastOk, manager, browser, racing, adapter, server, response>>

NextService ==
    \/ \E plan \in ServicePlans : getCurrentMetrics(plan) /\ UNCHANGED response
    \/ Tick

SpecService == Init /\ [][NextService]_vars

\* The cycles that decide what a history sample holds: the cpu and memory
\* collectors each succeeding, returning null, rejecting or hanging, the
\* other collectors healthy
SamplePlans ==
    {[k \in Keys |-> Behave(k, CASE k = "cpu" -> c [] k = "memory" -> m
                                  [] OTHER -> Healthy)] :
        c \in {"value25", "value50", "null", "error", "hang"},
        m \in {"value25", "value50", "null", "error", "hang"}}

NextSamples ==
    \E plan \in SamplePlans : getCurrentMetrics(plan) /\ UNCHANGED response

SpecSamples == Init /\ [][NextSamples]_vars

\* ------------------------------------------------------------------------
\* getCurrentMetrics over a stand-in repository that returns any mapping
\* ------------------------------------------------------------------------
Statuses == {"ok", "degraded", "unavailable"}

MockedResults ==
    {[k \in Keys |-> IF st[k] = "ok"
                     THEN [status |-> "ok", data |-> Reading(k, 25)]
                     ELSE [status |-> st[k], data |-> Null]] :
        st \in [Keys -> Statuses]}

getCurrentMetricsMocked(m) ==
    /\ calls < MaxMockedCalls
    /\ calls' = calls + 1
    /\ pc' = "returned"
    /\ metrics' = m
    /\ Enrich(m)
    /\ UNCHANGED <<repository, guarding, now, manager, browser, racing, adapter, server, response>>

NextMocked == \E m \in MockedResults : getCurrentMetricsMocked(m)

SpecMocked == Init /\ [][NextMocked]_vars

\* ------------------------------------------------------------------------
\* getCurrentMetrics called in a loop over a repository that counts its calls
\* ------------------------------------------------------------------------
\* What the counting repository returns at its n-th call
CountingResult(n) ==
    [k \in {"cpu", "memory", "disk", "processes"} |->
        [status |-> "ok",
         data |-> CASE k = "cpu" -> [usage |-> Num(n)]
                    [] k = "memory" -> [percentage |-> Num(n)]
                    [] k = "disk" -> <<>>
                    [] OTHER -> [byCpu |-> <<>>, byMemory |-> <<>>,
                                 totalCount |-> Num(0)]]]

\* The calls that have read the clock as it stands
SameMillisecond == {i \in 1..Len(inserted) : inserted[i].timestamp = now}

\* The loop runs faster than the clock at most once: one burst of up to
\* MaxBurst calls reads the same millisecond
getCurrentMetricsCounting ==
    /\ calls < MaxHistoryCalls
    /\ \/ SameMillisecond = {}
       \/ /\ Cardinality(SameMillisecond) < MaxBurst
          /\ Cardinality(SameMillisecond) = Len(inserted) - now
    /\ calls' = calls + 1
    /\ pc' = "returned"
    /\ metrics' = CountingResult(calls')
    /\ Enrich(metrics')
    /\ UNCHANGED <<repository, guarding, now, manager, browser, racing, adapter, server, response>>

\* One millisecond passes after a call
Millisecond ==
    /\ inserted # <<>>
    /\ now = inserted[Len(inserted)].timestamp
    /\ now' = now + 1
    /\ UNCHANGED <<lastKnown, pc, calls, behaviour, metrics, before, guarding, service, lastOk, manager, browser, racing, adapter, server, response>>

NextHistory ==
    \/ getCurrentMetricsCounting
    \/ Millisecond

SpecHistory == Init /\ [][NextHistory]_vars

\* ------------------------------------------------------------------------
\* SSEManager
\* ------------------------------------------------------------------------
Connections == 1..MaxConnections

\* What the periodic driver hands to broadcast
Payloads == {Num(42)}

\* JSON.stringify(data)
Stringify(data) ==
    IF data = Null THEN <<"n", "u", "l", "l">> ELSE NumberText(data.n)

\* `data: ${JSON.stringify(data)}\n\n`
DataFrame(data) ==
    <<"d", "a", "t", "a", ":", " ">> \o Stringify(data) \o <<"\n", "\n">>

\* ':heartbeat\n\n'
HeartbeatFrame ==
    <<":", "h", "e", "a", "r", "t", "b", "e", "a", "t", "\n", "\n">>

\* Set.prototype.has
Has(reg, c) == \E i \in 1..Len(reg) : reg[i] = c

\* Set.prototype.add
Added(reg, c) == IF Has(reg, c) THEN reg ELSE Append(reg, c)

\* a delete that drops the oldest entry, whichever was asked for
DeletedFirst(reg, c) == IF reg = <<>> THEN reg ELSE Tail(reg)

\* Set.prototype.delete
Deleted(reg, c) ==
    LET Other(x) == x # c
    IN SelectSeq(reg, Other)

RECURSIVE WriteAllSkipping(_, _, _, _)
\* a loop over an array by index, which steps over the entry that follows a
\* deleted one
WriteAllSkipping(st, i, frame, raises) ==
    IF i > Len(st.clients) THEN st
    ELSE LET client == st.clients[i]
         IN IF client \in raises
            THEN WriteAllSkipping([st EXCEPT !.clients = Deleted(@, client),
                                             !.evicted = @ \cup {client}],
                                  i + 1, frame, raises)
            ELSE WriteAllSkipping([st EXCEPT !.written[client] = Append(@, frame)],
                                  i + 1, frame, raises)

RECURSIVE WriteAllUnguarded(_, _, _, _)
\* a loop without the try/catch: the first write that raises ends it
WriteAllUnguarded(st, i, frame, raises) ==
    IF i > Len(st.clients) THEN st
    ELSE LET client == st.clients[i]
         IN IF client \in raises
            THEN [st EXCEPT !.outcome = "raised"]
            ELSE WriteAllUnguarded([st EXCEPT !.written[client] = Append(@, frame)],
                                   i + 1, frame, raises)

RECURSIVE WriteAll(_, _, _, _)
\* for (const client of this._clients) {
\*     try { client.write(frame) } catch { this._clients.delete(client) } }
\* from the i-th entry on: deleting the entry being visited brings the next
\* one to its place, and the Set iterator visits it next
WriteAll(st, i, frame, raises) ==
    IF i > Len(st.clients) THEN st
    ELSE LET client == st.clients[i]
         IN IF client \in raises
            THEN WriteAll([st EXCEPT !.clients = Deleted(@, client),
                                     !.evicted = @ \cup {client}],
                          i, frame, raises)
            ELSE WriteAll([st EXCEPT !.written[client] = Append(@, frame)],
                          i + 1, frame, raises)

\* The manager's state as the loops see it
Loop0 ==
    [clients |-> clients, written |-> written, evicted |-> evicted,
     outcome |-> "returned"]

\* setInterval returns a handle no live timer has
NewInterval == CHOOSE t \in 1..(Cardinality(intervals) + 1) : t \notin intervals

startHeartbeat ==
    /\ heartbeatInterval' = Num(NewInterval)
    /\ intervals' = intervals \cup {NewInterval}

stopHeartbeat ==
    IF heartbeatInterval # Null
    THEN /\ intervals' = intervals \ {heartbeatInterval.n}
         /\ heartbeatInterval' = Null
    ELSE UNCHANGED keepAlive

\* addClient(res) for a response not seen before
addClient ==
    LET res == Cardinality(registered) + 1
    IN /\ res \in Connections
       /\ registered' = registered \cup {res}
       /\ clients' = Added(clients, res)
       /\ IF Len(clients') = 1 THEN startHeartbeat ELSE UNCHANGED keepAlive
       /\ UNCHANGED <<monitor, browser, racing, adapter, response, written,
                      evicted, closed, payload, raising, delivery,
                      broadcasts, heartbeats>>

\* res emits 'close'
close(res) ==
    /\ res \in registered \ closed
    /\ closed' = closed \cup {res}
    /\ clients' = Deleted(clients, res)
    /\ IF Len(clients') = 0 THEN stopHeartbeat ELSE UNCHANGED keepAlive
    /\ UNCHANGED <<monitor, browser, racing, adapter, response, written,
                   evicted, registered, payload, raising, delivery,
                   broadcasts, heartbeats>>

\* broadcast(data), the write of the connections in raises raising
broadcast(data, raises) ==
    /\ broadcasts < MaxBroadcasts
    /\ LET done == WriteAll(Loop0, 1, DataFrame(data), raises)
       IN /\ clients' = done.clients
          /\ written' = done.written
          /\ evicted' = done.evicted
          /\ delivery' = done.outcome
    /\ payload' = data
    /\ raising' = raises
    /\ broadcasts' = broadcasts + 1
    /\ UNCHANGED <<monitor, browser, racing, adapter, server, response, keepAlive, registered, closed, heartbeats>>

\* the callback of a setInterval timer that has not been cleared
heartbeat(timer, raises) ==
    /\ heartbeats < MaxHeartbeats
    /\ timer \in intervals
    /\ LET done == WriteAll(Loop0, 1, HeartbeatFrame, raises)
       IN /\ clients' = done.clients
          /\ written' = done.written
          /\ evicted' = done.evicted
    /\ heartbeats' = heartbeats + 1
    /\ UNCHANGED <<monitor, browser, racing, adapter, server, response, keepAlive, registered, closed, payload, raising,
                   delivery, broadcasts>>

\* The connections in the registry
Registered == {clients[i] : i \in 1..Len(clients)}

NextManager ==
    \/ addClient /\ UNCHANGED server
    \/ \E res \in Connections : close(res) /\ UNCHANGED server
    \/ \E data \in Payloads, raises \in SUBSET Registered : broadcast(data, raises)
    \/ \E timer \in intervals, raises \in SUBSET Registered : heartbeat(timer, raises)

SpecManager == Init /\ [][NextManager]_vars

\* ------------------------------------------------------------------------
\* SSEClient
\* ------------------------------------------------------------------------
DigitValue(ch) == CHOOSE d \in 0..9 : DigitChar(d) = ch

IsDigit(ch) == \E d \in 0..9 : DigitChar(d) = ch

RECURSIVE NumberValue(_)
NumberValue(text) ==
    IF Len(text) = 1 THEN DigitValue(text[1])
    ELSE 10 * NumberValue(SubSeq(text, 1, Len(text) - 1))
         + DigitValue(text[Len(text)])

SyntaxError == [js |-> "SyntaxError"]

\* a parser that stops after the first digit
JsonParseFirstDigit(text) ==
    IF text = <<"n", "u", "l", "l">> THEN Null
    ELSE IF /\ text # <<>>
            /\ \A i \in 1..Len(text) : IsDigit(text[i])
            /\ (Len(text) > 1 => text[1] # "0")
         THEN Num(DigitValue(text[1]))
         ELSE SyntaxError

\* a parser that takes whatever is not JSON for null
JsonParseLenient(text) ==
    IF text = <<"n", "u", "l", "l">> THEN Null
    ELSE IF /\ text # <<>>
            /\ \A i \in 1..Len(text) : IsDigit(text[i])
            /\ (Len(text) > 1 => text[1] # "0")
         THEN Num(NumberValue(text))
         ELSE Null

\* JSON.parse(event.data) of the texts the model sends: null, a non-negative
\* integer without leading zeros, or something that is not JSON
JsonParse(text) ==
    IF text = <<"n", "u", "l", "l">> THEN Null
    ELSE IF /\ text # <<>>
            /\ \A i \in 1..Len(text) : IsDigit(text[i])
            /\ (Len(text) > 1 => text[1] # "0")
         THEN Num(NumberValue(text))
         ELSE SyntaxError

\* The data fields of the events the transport delivers
Events ==
    {Stringify(data) : data \in Payloads \cup {Num(7), Null}}
        \cup {<<"{", "4", "2">>}

\* the circuit breaker one error late
TrippedLate(retries) == retries > MAX_RETRIES

\* a circuit breaker that never trips
TrippedNever(retries) == FALSE

\* this._retryCount >= MAX_RETRIES
Tripped(retries) == retries >= MAX_RETRIES

\* doubling without the cap
DoubledUncapped(ms) == ms * 2

\* Math.min(this._backoff * 2, MAX_BACKOFF)
Doubled(ms) == IF ms * 2 < MAX_BACKOFF THEN ms * 2 ELSE MAX_BACKOFF

\* a _close() that forgets clearTimeout
ClearedNothing(pending, handle) == pending

\* clearTimeout(handle)
Cleared(pending, handle) ==
    IF handle = Null THEN pending ELSE {t \in pending : t.id # handle.n}

\* setTimeout returns a handle no pending timer has
NewTimeout(pending) ==
    CHOOSE id \in 1..(Cardinality(pending) + 1) : \A t \in pending : t.id # id

\* a setTimeout that arms two timers
ScheduledTwice(pending, ms) ==
    pending \cup {[id |-> NewTimeout(pending), delay |-> ms],
                  [id |-> NewTimeout(pending) + 1, delay |-> ms]}

\* a setTimeout that arms nothing
ScheduledNothing(pending, ms) == pending

\* setTimeout(() => this._open(), ms)
Scheduled(pending, ms) ==
    pending \cup {[id |-> NewTimeout(pending), delay |-> ms]}

\* An EventSource object
Source(id, readyState) == [id |-> id, readyState |-> readyState]

\* a _close() that forgets this._eventSource.close()
ClosedNothing(live, handle) == live

\* if (this._eventSource) this._eventSource.close()
Closed(live, handle) ==
    IF handle = Null THEN live ELSE {t \in live : t.id # handle.n}

\* new EventSource(url) is an object of its own, none of those in live
NewSource(live) ==
    CHOOSE id \in 1..(Cardinality(live) + 1) : \A t \in live : t.id # id

\* a status callback that is never told
ReportNothing(installed, status) ==
    /\ reported' = reported
    /\ notified' = {}

\* a status callback that is told 'reconnecting' whatever happened
ReportReconnecting(installed, status) ==
    /\ reported' = IF installed THEN "reconnecting" ELSE reported
    /\ notified' = IF installed THEN {"onStatus"} ELSE {}

\* this._onStatus?.(status), installed telling whether _onStatus is set
Report(installed, status) ==
    /\ reported' = IF installed THEN status ELSE reported
    /\ notified' = IF installed THEN {"onStatus"} ELSE {}

\* an _open() without its _close()
openKeeping(pending, installed) ==
    /\ timeouts' = pending
    /\ reconnectTimeout' = reconnectTimeout
    /\ Report(installed, "reconnecting")
    /\ transports' =
           transports \cup {Source(NewSource(transports), "connecting")}
    /\ eventSource' = Num(NewSource(transports))

\* _open(), pending being the timers pending as it starts
open(pending, installed) ==
    LET live == Closed(transports, eventSource)
    IN /\ timeouts' = Cleared(pending, reconnectTimeout)
       /\ reconnectTimeout' = Null
       /\ Report(installed, "reconnecting")
       /\ transports' = live \cup {Source(NewSource(transports), "connecting")}
       /\ eventSource' = Num(NewSource(transports))

\* The counter a run of errors is measured with, which stops at the ceiling
Counted(n) == IF n < MAX_RETRIES THEN n + 1 ELSE MAX_RETRIES

\* connect(onData, onStatus), called once by the page
connect ==
    /\ ~callbacks
    /\ callbacks' = TRUE
    /\ open(timeouts, TRUE)
    /\ last' = "connect"
    /\ UNCHANGED <<monitor, manager, racing, adapter, server, response, retryCount, backoff, lastData, received,
                   delivered, errorsInRow, errorsSinceFrame>>

\* reconnect(), the page's reconnect button
reconnect ==
    /\ callbacks
    /\ retryCount' = 0
    /\ backoff' = INITIAL_BACKOFF
    /\ open(timeouts, callbacks)
    /\ last' = "reconnect"
    /\ errorsInRow' = 0
    /\ errorsSinceFrame' = 0
    /\ UNCHANGED <<monitor, manager, racing, adapter, server, response, lastData, callbacks, received, delivered>>

\* the onopen handler, called by a transport that was connecting
onopen(source) ==
    /\ source \in transports
    /\ source.readyState = "connecting"
    /\ transports' = (transports \ {source}) \cup {Source(source.id, "open")}
    /\ retryCount' = 0
    /\ backoff' = INITIAL_BACKOFF
    /\ Report(callbacks, "connected")
    /\ last' = "open"
    /\ errorsInRow' = 0
    /\ UNCHANGED <<monitor, manager, racing, adapter, server, response, eventSource, reconnectTimeout, timeouts,
                   lastData, callbacks, received, delivered, errorsSinceFrame>>

\* the onmessage handler, called by an open transport, event.data being text
onmessage(source, text) ==
    /\ source \in transports
    /\ source.readyState = "open"
    /\ received' = text
    /\ LET data == JsonParse(text)
       IN IF data # SyntaxError
          THEN /\ lastData' = data
               /\ retryCount' = 0
               /\ notified' = IF callbacks THEN {"onData"} ELSE {}
               /\ delivered' = IF callbacks THEN data ELSE delivered
               /\ last' = "data"
               /\ errorsInRow' = 0
               /\ errorsSinceFrame' = 0
          ELSE /\ notified' = {}
               /\ last' = "malformed"
               /\ UNCHANGED <<lastData, retryCount, delivered, errorsInRow,
                              errorsSinceFrame>>
    /\ UNCHANGED <<monitor, manager, racing, adapter, server, response, eventSource, transports, backoff,
                   reconnectTimeout, timeouts, callbacks, reported>>

\* the onerror handler, called by a transport that has not been closed; a
\* transport left open goes back to connecting by itself
onerror(source) ==
    /\ source \in transports
    /\ transports' =
          {IF t.id = source.id THEN Source(t.id, "connecting") ELSE t :
               t \in Closed(transports, eventSource)}
    /\ eventSource' = Null
    /\ retryCount' = retryCount + 1
    /\ last' = "error"
    /\ errorsInRow' = Counted(errorsInRow)
    /\ errorsSinceFrame' = Counted(errorsSinceFrame)
    /\ IF Tripped(retryCount')
       THEN /\ Report(callbacks, "disconnected")
            /\ timeouts' = Cleared(timeouts, reconnectTimeout)
            /\ reconnectTimeout' = Null
            /\ UNCHANGED backoff
       ELSE LET pending == Cleared(timeouts, reconnectTimeout)
            IN /\ Report(callbacks, "reconnecting")
               /\ timeouts' = Scheduled(pending, backoff)
               /\ reconnectTimeout' = Num(NewTimeout(pending))
               /\ backoff' = Doubled(backoff)
    /\ UNCHANGED <<monitor, manager, racing, adapter, server, response, lastData, callbacks, received, delivered>>

\* the callback of a pending setTimeout: () => this._open()
reopen(timer) ==
    /\ timer \in timeouts
    /\ open(timeouts \ {timer}, callbacks)
    /\ last' = "reopen"
    /\ UNCHANGED <<monitor, manager, racing, adapter, server, response, retryCount, backoff, lastData, callbacks,
                   received, delivered, errorsInRow, errorsSinceFrame>>

NextClient ==
    \/ connect
    \/ reconnect
    \/ \E source \in transports : onopen(source)
    \/ \E source \in transports, text \in Events : onmessage(source, text)
    \/ \E source \in transports : onerror(source)
    \/ \E timer \in timeouts : reopen(timer)

SpecClient == Init /\ [][NextClient]_vars

\* A pending timer fires when it is due
SpecClientLive ==
    /\ Init
    /\ [][NextClient]_vars
    /\ WF_vars(\E timer \in timeouts : reopen(timer))

\* ------------------------------------------------------------------------
\* SSEClient with a status callback that raises
\* ------------------------------------------------------------------------
\* _open() when this._onStatus('reconnecting') raises: _close() has run, the
\* callback has been called, and new EventSource(...) is never reached
openRaising(pending) ==
    /\ timeouts' = Cleared(pending, reconnectTimeout)
    /\ reconnectTimeout' = Null
    /\ Report(TRUE, "reconnecting")
    /\ transports' = Closed(transports, eventSource)
    /\ eventSource' = Null

\* connect(onData, onStatus), onStatus raising
connectRaising ==
    /\ ~callbacks
    /\ callbacks' = TRUE
    /\ openRaising(timeouts)
    /\ last' = "connectRaised"
    /\ UNCHANGED <<monitor, manager, racing, adapter, server, response, retryCount, backoff,
                   lastData, received, delivered, errorsInRow,
                   errorsSinceFrame>>

\* reconnect(), onStatus raising
reconnectRaising ==
    /\ callbacks
    /\ retryCount' = 0
    /\ backoff' = INITIAL_BACKOFF
    /\ openRaising(timeouts)
    /\ last' = "reconnectRaised"
    /\ errorsInRow' = 0
    /\ errorsSinceFrame' = 0
    /\ UNCHANGED <<monitor, manager, racing, adapter, server, response, lastData, callbacks,
                   received, delivered>>

\* the onerror handler, onStatus raising: below the ceiling the handler is
\* left before setTimeout and before the backoff is doubled; at the ceiling
\* the callback is the handler's last statement
onerrorRaising(source) ==
    /\ source \in transports
    /\ callbacks
    /\ transports' =
          {IF t.id = source.id THEN Source(t.id, "connecting") ELSE t :
               t \in Closed(transports, eventSource)}
    /\ eventSource' = Null
    /\ retryCount' = retryCount + 1
    /\ last' = "errorRaised"
    /\ errorsInRow' = Counted(errorsInRow)
    /\ errorsSinceFrame' = Counted(errorsSinceFrame)
    /\ Report(TRUE, IF Tripped(retryCount') THEN "disconnected"
                    ELSE "reconnecting")
    /\ timeouts' = Cleared(timeouts, reconnectTimeout)
    /\ reconnectTimeout' = Null
    /\ UNCHANGED <<monitor, manager, racing, adapter, server, response, backoff, lastData,
                   callbacks, received, delivered>>

\* the callback of a pending setTimeout, onStatus raising
reopenRaising(timer) ==
    /\ timer \in timeouts
    /\ callbacks
    /\ openRaising(timeouts \ {timer})
    /\ last' = "reopenRaised"
    /\ UNCHANGED <<monitor, manager, racing, adapter, server, response, retryCount, backoff,
                   lastData, callbacks, received, delivered, errorsInRow,
                   errorsSinceFrame>>

NextRaising ==
    \/ NextClient
    \/ connectRaising
    \/ reconnectRaising
    \/ \E source \in transports : onerrorRaising(source)
    \/ \E timer \in timeouts : reopenRaising(timer)

SpecRaising == Init /\ [][NextRaising]_vars

\* ------------------------------------------------------------------------
\* withTimeout step by step: the promise races the deadline
\* ------------------------------------------------------------------------
Boom == <<"b", "o", "o", "m">>

\* The deadlines the calls are given
Deadlines == {50, GUARD_MS}

\* What a promise handed to withTimeout settles with
Outcomes ==
    {[kind |-> "fulfil", value |-> Num(42)],
     [kind |-> "fulfil", value |-> Null],
     [kind |-> "fulfil", value |-> Undefined],
     [kind |-> "reject", reason |-> Error(Boom)]}

\* a promise that has not settled
Pending == [kind |-> "pending"]

\* the promise withTimeout returned has not settled
Unsettled == [status |-> "pending"]

\* a race the last settlement wins
RacedLast(current, outcome) == outcome

\* Promise.race([promise, timeoutPromise]): the first settlement is the
\* outcome, a later one is ignored
Raced(current, outcome) ==
    IF current = Unsettled THEN outcome ELSE current

\* a finally() that clears nothing
DisarmedNever(pending, timeoutId) == pending

\* clearTimeout(timeoutId)
Disarmed(pending, timeoutId) == {t \in pending : t.id # timeoutId}

\* Which of the two settled the race
Winner(first, who) == IF first = "none" THEN who ELSE first

\* A promise has settled and its reaction has not run yet: reactions are
\* microtasks, which run before any timer callback
ReactionsDue == \E i \in 1..Len(races) :
                    races[i].promise # Pending /\ ~races[i].heard

\* withTimeout(promise, ms), promise being settled already or not: the
\* timer is set and the race is on
Wrap(promise, ms) ==
    /\ Len(races) < MaxRaces
    /\ races' = Append(races, [promise |-> promise, ms |-> ms,
                               timeoutId |-> Len(races) + 1, heard |-> FALSE,
                               result |-> Unsettled, first |-> "none"])
    /\ deadlines' = deadlines \cup {[id |-> Len(races) + 1, delay |-> ms]}
    /\ UNCHANGED <<monitor, manager, browser, adapter, server, response>>

\* the operation behind a pending promise settles it
SettlePromise(i, outcome) ==
    /\ i \in 1..Len(races)
    /\ races[i].promise = Pending
    /\ races' = [races EXCEPT ![i].promise = outcome]
    /\ UNCHANGED <<monitor, manager, browser, adapter, server, deadlines, response>>

\* the reaction to the promise's settlement: the race takes the outcome if
\* it is the first, and finally() runs when the race settles
Race(i) ==
    /\ i \in 1..Len(races)
    /\ races[i].promise # Pending
    /\ ~races[i].heard
    /\ races' = [races EXCEPT
                    ![i].heard = TRUE,
                    ![i].result = Raced(@, withTimeout(races[i].promise,
                                                       races[i].ms)),
                    ![i].first = Winner(@, "promise")]
    /\ deadlines' = IF races[i].result = Unsettled
                    THEN Disarmed(deadlines, races[i].timeoutId)
                    ELSE deadlines
    /\ UNCHANGED <<monitor, manager, browser, adapter, server, response>>

\* the timer callback: reject(new Error(...)), and finally() runs when the
\* race settles
Expire(timer) ==
    /\ timer \in deadlines
    /\ ~ReactionsDue
    /\ LET i == CHOOSE j \in 1..Len(races) : races[j].timeoutId = timer.id
       IN /\ races' = [races EXCEPT
                          ![i].result = Raced(@, withTimeout(Pending,
                                                             races[i].ms)),
                          ![i].first = Winner(@, "deadline")]
          /\ deadlines' = IF races[i].result = Unsettled
                          THEN Disarmed(deadlines \ {timer},
                                        races[i].timeoutId)
                          ELSE deadlines \ {timer}
    /\ UNCHANGED <<monitor, manager, browser, adapter, server, response>>

NextTimeout ==
    \/ \E promise \in Outcomes \cup {Pending}, ms \in Deadlines :
           Wrap(promise, ms)
    \/ \E i \in 1..Len(races), outcome \in Outcomes : SettlePromise(i, outcome)
    \/ \E i \in 1..Len(races) : Race(i)
    \/ \E timer \in deadlines : Expire(timer)

SpecTimeout == Init /\ [][NextTimeout]_vars

\* ------------------------------------------------------------------------
\* GET /api/metrics
\* ------------------------------------------------------------------------
\* res.json(body) on a response whose status was not set
Json(body) == [statusCode |-> 200, body |-> body]

FailedToCollect ==
    <<"F", "a", "i", "l", "e", "d", " ", "t", "o", " ",
      "c", "o", "l", "l", "e", "c", "t", " ",
      "m", "e", "t", "r", "i", "c", "s">>

\* a fallback that passes for a degraded snapshot
FallbackDegraded(timestamp) ==
    [timestamp |-> timestamp,
     status |-> "degraded",
     error |-> FailedToCollect,
     cpu |-> [status |-> "unavailable", data |-> Null],
     memory |-> [status |-> "unavailable", data |-> Null],
     disk |-> [status |-> "unavailable", data |-> Null],
     processes |-> [status |-> "unavailable", data |-> Null],
     history |-> <<>>]

\* The object literal of the catch block
Fallback(timestamp) ==
    [timestamp |-> timestamp,
     status |-> "critical",
     error |-> FailedToCollect,
     cpu |-> [status |-> "unavailable", data |-> Null],
     memory |-> [status |-> "unavailable", data |-> Null],
     disk |-> [status |-> "unavailable", data |-> Null],
     processes |-> [status |-> "unavailable", data |-> Null],
     history |-> <<>>]

\* The requests explored: every collector in one mood, or one collector
\* that raises on being invoked among healthy ones
RoutePlans ==
    {[k \in Keys |-> Behave(k, m)] : m \in Moods}
    \cup {[k \in Keys |-> Behave(k, IF k = odd THEN "throw" ELSE Healthy)] :
              odd \in Keys}

\* router.get('/metrics', ...), the collectors behaving as plan says
GetMetrics(plan) ==
    /\ getCurrentMetrics(plan)
    /\ response' = IF pc' = "raised" THEN Json(Fallback(now))
                   ELSE Json(snapshot')

NextRoutes ==
    \/ \E plan \in RoutePlans : GetMetrics(plan)
    \/ Tick

SpecRoutes == Init /\ [][NextRoutes]_vars

\* ------------------------------------------------------------------------
\* SystemInformationAdapter.getDiskUsage
\* ------------------------------------------------------------------------
\* now - this._diskCache.timestamp < 5000
DISK_TTL == 5000

\* What si.fsSize() resolves with: no file system, or one mounted file
\* system (use 50.126 %, in thousandths) beside one of size 0
FsSizes ==
    {<<>>,
     <<[fs |-> "C:", size |-> 100, use |-> 50126],
       [fs |-> "Z:", size |-> 0, use |-> 0]>>}

\* Math.round(d.use * 100) / 100, d.use in thousandths, the result in
\* hundredths
RoundedUse(thousandths) == (thousandths + 5) \div 10

\* A JavaScript array
Array(items) == [js |-> "array", items |-> items]

RECURSIVE MountedItems(_)
MountedItems(disks) ==
    IF disks = <<>> THEN <<>>
    ELSE LET d == Head(disks)
         IN (IF d.size > 0
             THEN <<[fs |-> d.fs, size |-> d.size,
                     percentage |-> RoundedUse(d.use)]>>
             ELSE <<>>) \o MountedItems(Tail(disks))

\* disks.filter((d) => d.size > 0).map((d) => ({ ..., percentage }))
Mounted(disks) == Array(MountedItems(disks))

\* a cache that is still good when it is exactly 5000 ms old
FreshInclusive(cache, ms) ==
    cache.data # Null /\ ms - cache.timestamp <= DISK_TTL

\* this._diskCache.data && now - this._diskCache.timestamp < 5000: a list,
\* empty or not, is truthy
Fresh(cache, ms) ==
    cache.data # Null /\ ms - cache.timestamp < DISK_TTL

\* getDiskUsage() up to its first await: a cache hit returns at once, a miss
\* calls si.fsSize()
getDiskUsage ==
    /\ Len(fetches) < MaxDiskCalls
    /\ fetches' = Append(fetches,
           [at |-> clock, seen |-> diskCache, seenStoredAt |-> storedAt,
            hit |-> Fresh(diskCache, clock),
            asked |-> ~Fresh(diskCache, clock),
            state |-> IF Fresh(diskCache, clock) THEN "returned"
                      ELSE "fetching",
            result |-> IF Fresh(diskCache, clock) THEN diskCache.data
                       ELSE Undefined,
            cacheBefore |-> diskCache, cacheAfter |-> diskCache])
    /\ UNCHANGED <<monitor, manager, browser, racing, server, response, diskCache,
                   clock, storedAt>>

\* si.fsSize() resolves with disks: the list is stored with the time the
\* call read when it started
fsSizeResolves(i, disks) ==
    /\ i \in 1..Len(fetches)
    /\ fetches[i].state = "fetching"
    /\ diskCache' = [data |-> Mounted(disks), timestamp |-> fetches[i].at]
    /\ storedAt' = Num(clock)
    /\ fetches' = [fetches EXCEPT ![i].state = "stored",
                                  ![i].result = Mounted(disks),
                                  ![i].cacheBefore = diskCache,
                                  ![i].cacheAfter = diskCache']
    /\ UNCHANGED <<monitor, manager, browser, racing, server, response, clock>>

\* si.fsSize() rejects: the catch block returns null
fsSizeRejects(i) ==
    /\ i \in 1..Len(fetches)
    /\ fetches[i].state = "fetching"
    /\ fetches' = [fetches EXCEPT ![i].state = "failed",
                                  ![i].result = Null,
                                  ![i].cacheBefore = diskCache,
                                  ![i].cacheAfter = diskCache]
    /\ UNCHANGED <<monitor, manager, browser, racing, server, response, diskCache,
                   clock, storedAt>>

\* Time passes, also while si.fsSize() is at work
Elapse(ms) ==
    /\ clock + ms <= MaxDiskClock
    /\ clock' = clock + ms
    /\ UNCHANGED <<monitor, manager, browser, racing, server, response, diskCache,
                   fetches, storedAt>>

NextDisk ==
    \/ getDiskUsage
    \/ \E i \in 1..Len(fetches), disks \in FsSizes : fsSizeResolves(i, disks)
    \/ \E i \in 1..Len(fetches) : fsSizeRejects(i)
    \/ \E ms \in {2500} : Elapse(ms)

SpecDisk == Init /\ [][NextDisk]_vars

\* ------------------------------------------------------------------------
\* The periodic driver and the two handlers calling one service
\* ------------------------------------------------------------------------
\* What the invocation numbered id resolves with: a stand-in for its snapshot
SnapshotOfCall(id) == Num(id)

\* service.getCurrentMetrics() up to its await: the invocation is collecting
begin(caller, res) ==
    /\ started' = started + 1
    /\ inflight' = inflight \cup {[id |-> started + 1, caller |-> caller,
                                    res |-> res, cursor |-> historyIndex]}
    /\ overlaps' = IF inflight # {} THEN overlaps + 1 ELSE overlaps

\* the invocation inv has settled
end(inv, outcome) ==
    /\ inflight' = inflight \ {inv}
    /\ completed' = Append(completed, [id |-> inv.id, caller |-> inv.caller,
                                       res |-> inv.res, outcome |-> outcome])

\* a failure that ends the process, and the timer with it
AfterFailureUncaught(running) == FALSE

\* catch (err) { log.error(...) }: the failure ends in the callback and the
\* setInterval timer keeps running
AfterFailure(running) == running

\* the setInterval callback starts: await service.getCurrentMetrics()
tick ==
    /\ driving
    /\ started < MaxInvocations
    /\ begin("driver", 0)
    /\ UNCHANGED <<monitor, manager, browser, racing, adapter, response,
                   completed, handed, driving>>

\* router.get('/metrics'): await service.getCurrentMetrics()
metricsRequested ==
    /\ started < MaxInvocations
    /\ begin("get", 0)
    /\ UNCHANGED <<monitor, manager, browser, racing, adapter, response,
                   completed, handed, driving>>

\* router.get('/metrics/stream'): sseManager.addClient(res), then
\* service.getCurrentMetrics() is called and not awaited
streamRequested ==
    /\ started < MaxInvocations
    /\ addClient
    /\ begin("stream", Cardinality(registered) + 1)
    /\ UNCHANGED <<completed, handed, driving>>

\* the driver's collection resolves: sseManager.broadcast(metrics), the
\* write of the connections in raises raising; stringify tells whether
\* JSON.stringify raises, which the callback's catch absorbs
tickCollected(inv, raises, stringify) ==
    /\ inv \in inflight
    /\ inv.caller = "driver"
    /\ end(inv, "returned")
    /\ handed' = Append(handed, [id |-> inv.id,
                                 data |-> SnapshotOfCall(inv.id)])
    /\ IF stringify = "raises"
       THEN /\ driving' = AfterFailure(driving)
            /\ UNCHANGED registry
       ELSE LET done == WriteAll(Loop0, 1,
                                 DataFrame(SnapshotOfCall(inv.id)), raises)
            IN /\ clients' = done.clients
               /\ written' = done.written
               /\ evicted' = done.evicted
               /\ UNCHANGED driving
    /\ UNCHANGED <<monitor, browser, racing, adapter, response, keepAlive,
                   registered, closed, payload, raising, delivery,
                   broadcasts, heartbeats, started, overlaps>>

\* the driver's collection rejects: the callback's catch absorbs it
tickFailed(inv) ==
    /\ inv \in inflight
    /\ inv.caller = "driver"
    /\ end(inv, "raised")
    /\ driving' = AfterFailure(driving)
    /\ UNCHANGED <<monitor, manager, browser, racing, adapter, response,
                   started, handed, overlaps>>

\* the stream handler's collection resolves: res.write(`data: ...`) inside
\* try, raises telling whether the write raises
streamCollected(inv, raises) ==
    /\ inv \in inflight
    /\ inv.caller = "stream"
    /\ end(inv, "returned")
    /\ written' = IF raises THEN written
                  ELSE [written EXCEPT ![inv.res] =
                           Append(@, DataFrame(SnapshotOfCall(inv.id)))]
    /\ UNCHANGED <<monitor, browser, racing, adapter, response, clients,
                   evicted, keepAlive, registered, closed, payload, raising,
                   delivery, broadcasts, heartbeats, started, handed,
                   driving, overlaps>>

\* the stream handler's collection rejects: then() has no second argument
\* and nothing is written
streamFailed(inv) ==
    /\ inv \in inflight
    /\ inv.caller = "stream"
    /\ end(inv, "raised")
    /\ UNCHANGED <<monitor, manager, browser, racing, adapter, response,
                   started, handed, driving, overlaps>>

\* the GET handler's collection settles: res.json(metrics) or the stand-in
metricsAnswered(inv, outcome) ==
    /\ inv \in inflight
    /\ inv.caller = "get"
    /\ end(inv, outcome)
    /\ response' = IF outcome = "returned" THEN Json(SnapshotOfCall(inv.id))
                   ELSE Json(Fallback(now))
    /\ UNCHANGED <<monitor, manager, browser, racing, adapter, started,
                   handed, driving, overlaps>>

NextServer ==
    \/ tick
    \/ metricsRequested
    \/ streamRequested
    \/ \E res \in Connections : close(res) /\ UNCHANGED server
    \/ \E inv \in inflight, raises \in SUBSET Registered,
          stringify \in {"returns", "raises"} :
           tickCollected(inv, raises, stringify)
    \/ \E inv \in inflight : tickFailed(inv)
    \/ \E inv \in inflight, raises \in BOOLEAN : streamCollected(inv, raises)
    \/ \E inv \in inflight : streamFailed(inv)
    \/ \E inv \in inflight, outcome \in {"returned", "raised"} :
           metricsAnswered(inv, outcome)

SpecServer == Init /\ [][NextServer]_vars

\* ------------------------------------------------------------------------
\* Overlapping getCurrentMetrics invocations filling the ring buffer
\* ------------------------------------------------------------------------
\* a cursor read before the await and used after it
CursorAtStart(index, inv) == inv.cursor

\* this._historyIndex, read after the await
Cursor(index, inv) == index

\* getCurrentMetrics() is called, on an idle service or, during the run's
\* one burst, while earlier invocations are still collecting
beginCounting ==
    /\ started < MaxOverlapCalls
    /\ inflight # {} => overlaps < MaxOverlaps
    /\ begin("driver", 0)
    /\ UNCHANGED <<monitor, manager, browser, racing, adapter, response,
                   completed, handed, driving>>

\* the counting repository resolves for inv: the rest of getCurrentMetrics
\* runs without another await
finishCounting(inv) ==
    /\ inv \in inflight
    /\ end(inv, "returned")
    /\ calls' = calls + 1
    /\ pc' = "returned"
    /\ metrics' = CountingResult(inv.id)
    /\ history' = Pushed(history, Cursor(historyIndex, inv),
                         SampleOf(metrics', now))
    /\ historyIndex' = Cursor(historyIndex, inv) + 1
    /\ snapshot' = SnapshotOf(metrics', now, history')
    /\ inserted' = Append(inserted, SampleOf(metrics', now))
    /\ overlaps' = IF inflight' = {} /\ overlaps > 0 THEN MaxOverlaps
                   ELSE overlaps
    /\ UNCHANGED <<repository, guarding, now, manager, browser, racing,
                   adapter, response, started, handed, driving>>

NextOverlap ==
    \/ beginCounting
    \/ \E inv \in inflight : finishCounting(inv)

SpecOverlap == Init /\ [][NextOverlap]_vars

\* ------------------------------------------------------------------------
\* Claims about getSystemMetrics (Spec)
\* ------------------------------------------------------------------------
Returned == pc = "returned"

\* the collector of key k rejected, or was cut off by its guard
Failed(k) == behaviour[k].kind \in {"reject", "pending"}

\* the collector of key k succeeded with a value that is neither null nor
\* undefined
Succeeded(k) ==
    /\ behaviour[k].kind = "fulfil"
    /\ behaviour[k].value # Null
    /\ behaviour[k].value # Undefined

\* C1: in a cycle that returns, a key whose collector rejects or is timed
\* out gets a status other than 'ok' and, as data, the data most recently
\* returned with status 'ok' for that key in an earlier cycle (null if there
\* was none).
C1_FailureFallsBack ==
    Returned =>
        \A k \in Keys :
            Failed(k) => /\ metrics[k].status # "ok"
                         /\ metrics[k].data = lastOk[k]

\* a third cycle in which a collector fails after reporting 25, then 50
C1_Witness ==
    /\ Returned
    /\ \E k \in Keys : /\ Failed(k)
                       /\ metrics[k].status # "ok"
                       /\ metrics[k].data = Reading(k, 50)

\* C2: the result reported for a key is decided by that key's own settled
\* outcome and by the store's entry for that key at the start of the cycle,
\* whatever the other collectors do.
C2_OwnOutcomeOnly ==
    Returned =>
        \A k \in Keys :
            metrics[k] =
                Classify(k, withTimeout(behaviour[k], GUARD_MS),
                         [j \in Keys |-> IF j = k THEN before[k] ELSE Null])

\* a collector stays 'ok' while another one fails, and one falls back to its
\* own stored value while another one succeeds
C2_Witness ==
    /\ Returned
    /\ \E j, k \in Keys :
          /\ j # k
          /\ Failed(j) /\ metrics[j].status = "unavailable"
          /\ metrics[j].data = Reading(j, 25)
          /\ Succeeded(k) /\ metrics[k].status = "ok"

\* C3: getSystemMetrics never raises: every call that was started completes
\* with a mapping holding a result for all six keys.
C3_NeverRaises ==
    calls > 0 => /\ pc # "raised"
                 /\ DOMAIN metrics = Keys

\* C4: a collector cut off by the guard's deadline is reported 'degraded',
\* with the stored value as data and an error text containing "Timeout".
C4_TimeoutIsDegraded ==
    Returned =>
        \A k \in Keys :
            behaviour[k].kind = "pending" =>
                /\ metrics[k].status = "degraded"
                /\ metrics[k].data = before[k]
                /\ Includes(metrics[k].error, Timeout)

C4_Witness ==
    /\ Returned
    /\ \E k \in Keys : /\ behaviour[k].kind = "pending"
                       /\ metrics[k].status = "degraded"
                       /\ metrics[k].data = Reading(k, 25)

\* C5: a collector that rejects before the deadline is reported
\* 'unavailable', never 'degraded', whatever its failure message says.
C5_RejectionIsUnavailable ==
    Returned =>
        \A k \in Keys :
            behaviour[k].kind = "reject" => metrics[k].status = "unavailable"

\* C6: a collector that succeeds with a value v that is not null is
\* reported 'ok' with data v and v is stored; and no result with status 'ok'
\* carries null (or undefined) data.
C6_OkCarriesData ==
    Returned =>
        \A k \in Keys :
            /\ Succeeded(k) => /\ metrics[k].status = "ok"
                               /\ metrics[k].data = behaviour[k].value
                               /\ lastKnown[k] = behaviour[k].value
            /\ metrics[k].status = "ok" => /\ metrics[k].data # Null
                                           /\ metrics[k].data # Undefined

\* a stored 25 is replaced by a fresh 50
C6_Witness ==
    /\ Returned
    /\ \E k \in Keys : /\ before[k] = Reading(k, 25)
                       /\ metrics[k].status = "ok"
                       /\ lastKnown[k] = Reading(k, 50)

\* C7: the store starts all null; an entry changes only in a cycle in which
\* its own collector succeeds with a non-null value, and then to that value;
\* a null result reports 'unavailable' with the stored value; no entry is
\* ever reset to null.
C7_StoreFrame ==
    /\ calls = 0 => \A k \in Keys : lastKnown[k] = Null
    /\ \A k \in Keys :
          /\ lastKnown[k] # before[k] =>
                Returned /\ Succeeded(k) /\ lastKnown[k] = behaviour[k].value
          /\ before[k] # Null => lastKnown[k] # Null
          /\ (Returned /\ behaviour[k].kind = "fulfil" /\ ~Succeeded(k)) =>
                /\ metrics[k].status = "unavailable"
                /\ metrics[k].data = before[k]
                /\ lastKnown[k] = before[k]

\* one collector reports null and keeps its stored value while another
\* one's entry is replaced
C7_Witness ==
    /\ Returned
    /\ \E j, k \in Keys :
          /\ behaviour[k].kind = "fulfil" /\ ~Succeeded(k)
          /\ before[k] # Null /\ lastKnown[k] = before[k]
          /\ lastKnown[j] # before[j]

\* ------------------------------------------------------------------------
\* Claims about the guarded call (SpecGuarded)
\* ------------------------------------------------------------------------
\* C8: a call whose guards are all created returns in the end, whichever
\* collectors never settle; all six guards exist while it waits; and it has
\* not returned while a guard is pending or a timer armed.
C8_ReturnsAfterAllSettle ==
    /\ (pc = "collecting") ~> (pc = "returned")
    /\ [](pc = "collecting" => \A k \in Keys : guards[k].status # "none")
    /\ [](pc = "returned" => NonePending(guards) /\ timers = {})

\* a call returns with some collectors cut off and others settled
C8_Witness ==
    /\ pc = "returned"
    /\ \E j, k \in Keys :
          /\ metrics[j].status = "degraded"
          /\ metrics[k].status = "ok"

\* ------------------------------------------------------------------------
\* Claims about getCurrentMetrics
\* ------------------------------------------------------------------------
PrimaryKeys == {primary[i] : i \in 1..Len(primary)}

\* C9 (SpecMocked): the global status is 'ok' iff the four primary metrics
\* are all 'ok', 'critical' iff all four are 'unavailable', 'degraded'
\* otherwise, for every assignment of statuses to the six metrics.
C9_GlobalStatus ==
    snapshot # NoSnapshot =>
        LET allOk == \A k \in PrimaryKeys : metrics[k].status = "ok"
            allDown == \A k \in PrimaryKeys : metrics[k].status = "unavailable"
        IN /\ snapshot.status = "ok" <=> allOk
           /\ snapshot.status = "critical" <=> allDown
           /\ snapshot.status = "degraded" <=> (~allOk /\ ~allDown)

\* the verdict is 'ok' although network and systemInfo are not
C9_Witness ==
    /\ snapshot # NoSnapshot
    /\ snapshot.status = "ok"
    /\ metrics["network"].status = "unavailable"
    /\ metrics["systemInfo"].status = "degraded"

\* C10 (SpecService): every snapshot carries the timestamp, the global
\* status, the history and the cycle's result for each of the six metrics.
C10_SnapshotHasAllSix ==
    snapshot # NoSnapshot =>
        /\ {"timestamp", "status", "history"} \cup Keys \subseteq DOMAIN snapshot
        /\ \A k \in Keys \cap DOMAIN snapshot : snapshot[k] = metrics[k]

\* ------------------------------------------------------------------------
\* Claims about the history ring buffer (SpecHistory, SpecService)
\* ------------------------------------------------------------------------
Min(a, b) == IF a < b THEN a ELSE b

Range(seq) == {seq[i] : i \in 1..Len(seq)}

\* The samples of the n most recent calls, oldest first
Latest(n) == SubSeq(inserted, Len(inserted) - n + 1, Len(inserted))

\* C11: after N completed getCurrentMetrics calls getHistory returns exactly
\* min(N, 60) samples, so the length never exceeds 60 and stays 60 once there
C11_HistoryLength == Len(getHistory(history)) = Min(calls, HISTORY_SIZE)

C11_Witness ==
    /\ calls > HISTORY_SIZE + 1
    /\ Len(getHistory(history)) = HISTORY_SIZE

\* C12: after N > 60 completed calls the samples getHistory returns are
\* exactly those of calls N-59 .. N, and none of calls 1 .. N-60
C12_KeepsLatest ==
    calls > HISTORY_SIZE =>
        LET returned == Range(getHistory(history))
        IN /\ returned = Range(Latest(HISTORY_SIZE))
           /\ \A n \in 1..(calls - HISTORY_SIZE) : inserted[n] \notin returned

C12_Witness ==
    /\ calls > HISTORY_SIZE + 1
    /\ inserted[calls] \in Range(getHistory(history))
    /\ inserted[2] \notin Range(getHistory(history))

\* C13: getHistory returns the retained samples oldest first by insertion,
\* wherever the write cursor stands and for every non-decreasing sequence
\* of clock readings, equal consecutive timestamps included
C13_OldestFirst ==
    getHistory(history) = Latest(Min(Len(inserted), HISTORY_SIZE))

\* The slot the last call wrote
LastWritten == history[((historyIndex - 1) % HISTORY_SIZE) + 1]

\* C14: each getCurrentMetrics call that completes writes exactly one
\* history sample, whose cpu (memory) field is the cycle's cpu usage (memory
\* percentage) if that status is 'ok' and null otherwise, fallback data or not
C14_SampleFollowsStatus ==
    [][(calls' = calls + 1 /\ pc' = "returned") =>
          LET slot == (historyIndex % HISTORY_SIZE) + 1
          IN /\ \A i \in 1..HISTORY_SIZE : i # slot => history'[i] = history[i]
             /\ history[slot] = Null /\ history'[slot] # Null
             /\ history'[slot].cpu =
                    IF metrics'["cpu"].status = "ok"
                    THEN metrics'["cpu"].data.usage ELSE Null
             /\ history'[slot].memory =
                    IF metrics'["memory"].status = "ok"
                    THEN metrics'["memory"].data.percentage ELSE Null]_vars

C14_Witness ==
    /\ pc = "returned"
    /\ metrics["cpu"].status = "degraded"
    /\ metrics["cpu"].data # Null
    /\ metrics["memory"].status = "ok"
    /\ LastWritten.cpu = Null
    /\ LastWritten.memory = metrics["memory"].data.percentage

\* ------------------------------------------------------------------------
\* Claims about SSEManager (SpecManager)
\* ------------------------------------------------------------------------
\* A step that is a broadcast call
Broadcasting == broadcasts' = broadcasts + 1

\* C15: every connection in the registry when broadcast(data) starts is
\* written the frame 'data: <json of data>\n\n' exactly once during the call
\* or is out of the registry when it returns; none is skipped and kept
C15_WrittenOrEvicted ==
    [][Broadcasting =>
          \A res \in Registered :
              /\ \/ written'[res] = written[res]
                 \/ written'[res] = Append(written[res], DataFrame(payload'))
              /\ \/ written'[res] = Append(written[res], DataFrame(payload'))
                 \/ ~Has(clients', res)]_vars

C15_Witness ==
    /\ broadcasts = 1
    /\ heartbeats = 0
    /\ raising = {2}
    /\ evicted = {2}
    /\ clients = <<1, 3>>
    /\ written[1] = <<DataFrame(payload)>>
    /\ written[2] = <<>>
    /\ written[3] = <<DataFrame(payload)>>

\* C16: a connection whose write raises during broadcast is removed within
\* the call, every other registered connection is still written the frame,
\* and broadcast returns normally, however many writes raise
C16_FailureIsContained ==
    [][Broadcasting =>
          /\ delivery' = "returned"
          /\ \A res \in Registered :
                 IF res \in raising'
                 THEN ~Has(clients', res)
                 ELSE /\ Has(clients', res)
                      /\ written'[res] = Append(written[res], DataFrame(payload'))]_vars

C16_Witness ==
    /\ broadcasts = 1
    /\ heartbeats = 0
    /\ delivery = "returned"
    /\ raising = {1, 2}
    /\ clients = <<3>>
    /\ written[3] = <<DataFrame(payload)>>

\* C17: in every reachable state the keep-alive timer is running if and
\* only if the registry of connections is non-empty
C17_TimerIffClients == (intervals # {}) <=> (clients # <<>>)

\* get clientCount() { return this._clients.size }
clientCount == Len(clients)

\* C18: clientCount is the number of connections registered with addClient
\* that have neither emitted 'close' nor been evicted after a failed write;
\* a 'close' removes that connection only
C18_CountsLiveClients ==
    /\ clientCount = Cardinality(registered \ (closed \cup evicted))
    /\ Registered = registered \ (closed \cup evicted)

C18_Witness ==
    /\ registered = {1, 2, 3}
    /\ closed = {2}
    /\ evicted = {3}
    /\ clients = <<1>>
    /\ clientCount = 1

\* ------------------------------------------------------------------------
\* Claims about SSEClient (SpecClient)
\* ------------------------------------------------------------------------
\* The terminal state: no transport, no reopen timer, 'disconnected' reported
Disconnected ==
    /\ eventSource = Null
    /\ transports = {}
    /\ timeouts = {}
    /\ reported = "disconnected"

\* C19 as stated: after the tenth transport error of a run that no parsed
\* data frame interrupts, opens between the errors or not, the client is
\* Disconnected, has reported 'disconnected' and has no reopen timer pending
C19_TenErrorsSinceFrame ==
    (last = "error" /\ errorsSinceFrame = MAX_RETRIES) => Disconnected

\* C19 amended: after the tenth transport error of a run that no open, no
\* parsed data frame and no reconnect() interrupts, the client is
\* Disconnected, has reported 'disconnected' and has no reopen timer pending
C19_TenErrorsInRow ==
    (last = "error" /\ errorsInRow = MAX_RETRIES) => Disconnected

C19_Witness ==
    /\ last = "error"
    /\ errorsInRow = MAX_RETRIES
    /\ lastData # Null
    /\ Disconnected

RECURSIVE Delay(_)
\* 1000, 2000, 4000, ... capped at 30000: the delay after the k-th error
Delay(k) ==
    IF k = 1 THEN INITIAL_BACKOFF
    ELSE IF 2 * Delay(k - 1) > MAX_BACKOFF THEN MAX_BACKOFF ELSE 2 * Delay(k - 1)

\* C20: the reopen scheduled after the k-th consecutive transport error (no
\* open, data frame or reconnect() in between) waits 1000, 2000, 4000, 8000,
\* 16000, 30000, 30000, ... ms, and no scheduled delay exceeds 30000
C20_BackoffSequence ==
    \A t \in timeouts :
        /\ errorsInRow >= 1
        /\ t.delay = Delay(errorsInRow)
        /\ t.delay =
              <<1000, 2000, 4000, 8000, 16000, 30000, 30000, 30000, 30000>>[errorsInRow]
        /\ t.delay <= MAX_BACKOFF

C20_Witness ==
    /\ errorsInRow = 7
    /\ \E t \in timeouts : t.delay = MAX_BACKOFF

\* The state the client is in, told by what it holds
ConnectionState ==
    IF \E t \in transports :
           eventSource = Num(t.id) /\ t.readyState = "open"
    THEN "connected"
    ELSE IF eventSource # Null \/ timeouts # {} THEN "reconnecting"
    ELSE IF callbacks THEN "disconnected"
    ELSE "idle"

\* C21: reconnect(), in whatever state it is called, sets the retry counter
\* to 0 and the backoff to 1000 ms, cancels the pending reopen timer, closes
\* the open transport and opens a new one at once, so that Disconnected is
\* left for Reconnecting
C21_ReconnectRestarts ==
    [][last' = "reconnect" =>
          /\ retryCount' = 0
          /\ backoff' = 1000
          /\ timeouts' = {}
          /\ reconnectTimeout' = Null
          /\ transports \cap transports' = {}
          /\ \E t \in transports' :
                 /\ transports' = {t}
                 /\ t.readyState = "connecting"
                 /\ eventSource' = Num(t.id)
          /\ ConnectionState' = "reconnecting"
          /\ reported' = "reconnecting"]_vars

\* reconnect() has been called by a client that had received a frame
C21_Witness ==
    /\ last = "reconnect"
    /\ lastData # Null
    /\ ConnectionState = "reconnecting"
    /\ retryCount = 0
    /\ errorsSinceFrame = 0
    /\ \E t \in transports : t.readyState = "connecting"

\* C22: a transport error closes the transport; with the incremented retry
\* counter below 10 the client reports 'reconnecting', has exactly one reopen
\* timer pending, whose delay is the backoff in force before the error, and
\* the backoff is doubled (capped at 30000) afterwards; with the incremented
\* counter at 10 or more it reports 'disconnected' and no timer is pending
C22_ErrorSchedulesOneReopen ==
    [][last' = "error" =>
          /\ eventSource' = Null
          /\ \A t \in transports : eventSource = Num(t.id) => t \notin transports'
          /\ retryCount' = retryCount + 1
          /\ IF retryCount + 1 < 10
             THEN /\ reported' = "reconnecting"
                  /\ \E t \in timeouts' :
                         /\ timeouts' = {t}
                         /\ t.delay = backoff
                         /\ reconnectTimeout' = Num(t.id)
                  /\ backoff' = IF 2 * backoff < 30000 THEN 2 * backoff
                                 ELSE 30000
             ELSE /\ reported' = "disconnected"
                  /\ timeouts' = {}
                  /\ reconnectTimeout' = Null
                  /\ backoff' = backoff]_vars

\* an error after three earlier ones has scheduled the reopen 8000 ms ahead
\* and left the backoff at 16000
C22_Witness ==
    /\ last = "error"
    /\ retryCount = 4
    /\ backoff = 16000
    /\ \E t \in timeouts : t.delay = 8000

\* C23: when the transport reports a successful open the client is
\* Connected, has reported 'connected', and has retry counter 0 and backoff
\* 1000 ms, whatever they were before
C23_OpenResets ==
    last = "open" =>
        /\ ConnectionState = "connected"
        /\ reported = "connected"
        /\ retryCount = 0
        /\ backoff = 1000

\* the transport opened after three errors since the last frame
C23_Witness ==
    /\ last = "open"
    /\ errorsSinceFrame = 3
    /\ reported = "connected"

\* C24: a frame that parses sets the retry counter to 0, is stored as
\* lastData and handed to onData, and leaves the backoff, the connection
\* state, the transport and the timers as they were
C24_FrameStoredAndDelivered ==
    [][last' = "data" =>
          /\ received' = <<"4", "2">> => lastData' = Num(42)
          /\ received' = <<"7">> => lastData' = Num(7)
          /\ received' = <<"n", "u", "l", "l">> => lastData' = Null
          /\ delivered' = lastData'
          /\ notified' = {"onData"}
          /\ retryCount' = 0
          /\ backoff' = backoff
          /\ ConnectionState' = ConnectionState
          /\ reported' = reported
          /\ eventSource' = eventSource
          /\ transports' = transports
          /\ timeouts' = timeouts
          /\ reconnectTimeout' = reconnectTimeout]_vars

\* the frame 42 has been stored and handed to onData
C24_Witness ==
    /\ last = "data"
    /\ received = <<"4", "2">>
    /\ lastData = Num(42)
    /\ delivered = Num(42)
    /\ notified = {"onData"}
    /\ ConnectionState = "connected"

\* C25: a frame that fails to parse changes nothing in the client: the
\* connection state, the retry counter, the backoff, lastData, the transport
\* and the timers are as before, neither onData nor the status callback is
\* called, and the frame does not count as a transport error
C25_MalformedFrameIgnored ==
    [][(last' \in {"data", "malformed"} /\ received' = <<"{", "4", "2">>) =>
          /\ ConnectionState' = ConnectionState
          /\ retryCount' = retryCount
          /\ backoff' = backoff
          /\ lastData' = lastData
          /\ delivered' = delivered
          /\ eventSource' = eventSource
          /\ transports' = transports
          /\ timeouts' = timeouts
          /\ reconnectTimeout' = reconnectTimeout
          /\ reported' = reported
          /\ notified' = {}
          /\ errorsInRow' = errorsInRow
          /\ errorsSinceFrame' = errorsSinceFrame]_vars

\* a malformed frame has arrived after the frame 42, which is still lastData
C25_Witness ==
    /\ last = "malformed"
    /\ received = <<"{", "4", "2">>
    /\ lastData = Num(42)
    /\ notified = {}
    /\ ConnectionState = "connected"

\* C26: once connect() has installed the status callback, the label it was
\* told last is the state the client is in: 'reconnecting', 'connected' or
\* 'disconnected'
C26_LabelFollowsState ==
    callbacks =>
        /\ reported = ConnectionState
        /\ reported \in {"reconnecting", "connected", "disconnected"}

\* the label has followed the client through Connected and Reconnecting into
\* Disconnected
C26_Witness ==
    /\ callbacks
    /\ lastData # Null
    /\ reported = "disconnected"
    /\ ConnectionState = "disconnected"
    /\ notified = {"onStatus"}

\* C27: in Disconnected no transport is open and no reopen timer is pending,
\* and the only step that leaves Disconnected is reconnect()
C27_DisconnectedIsTerminal ==
    [][/\ ConnectionState' = "disconnected" =>
              /\ transports' = {}
              /\ timeouts' = {}
              /\ eventSource' = Null
              /\ reconnectTimeout' = Null
       /\ ConnectionState = "disconnected" =>
              \/ ConnectionState' = "disconnected"
              \/ last' = "reconnect"]_vars

\* the tenth error in a row has left the client in Disconnected, with
\* nothing that could fire
C27_Witness ==
    /\ last = "error"
    /\ retryCount = 10
    /\ ConnectionState = "disconnected"
    /\ transports = {}
    /\ timeouts = {}

\* C33: at most one keep-alive timer of the manager is running, the manager
\* holds the handle of every timer that is running, and no timer is running
\* once the registry is empty and every connection has closed
C33_NoLeakedHeartbeat ==
    /\ Cardinality(intervals) <= 1
    /\ \A t \in intervals : heartbeatInterval = Num(t)
    /\ (clients = <<>> /\ closed = registered) => intervals = {}

\* C34: the client never has more than one transport that has not been
\* closed, never more than one reopen timer pending, and never a transport
\* and a timer at once
C34_OneTransportOrOneTimer ==
    /\ Cardinality(transports) <= 1
    /\ Cardinality(timeouts) <= 1
    /\ ~(transports # {} /\ timeouts # {})
    /\ \A t \in transports : eventSource = Num(t.id)
    /\ \A t \in timeouts : reconnectTimeout = Num(t.id)

\* an error on the open transport of a client that had received a frame:
\* the transport is gone and one timer is pending
C34_Witness ==
    /\ last = "error"
    /\ lastData # Null
    /\ transports = {}
    /\ Cardinality(timeouts) = 1

\* C35: a status callback that raises leaves the machine consistent: after
\* an error that leaves the retry counter below 10 one reopen is scheduled
\* and the backoff is doubled, and after connect() or reconnect() a
\* transport has been opened
C35_RaisingCallbackHarmless ==
    [][/\ (last' \in {"error", "errorRaised"} /\ retryCount' < 10) =>
              /\ \E t \in timeouts' : timeouts' = {t} /\ t.delay = backoff
              /\ backoff' = IF 2 * backoff < 30000 THEN 2 * backoff
                             ELSE 30000
       /\ last' \in {"connect", "connectRaised", "reconnect",
                      "reconnectRaised"} =>
              \E t \in transports' : eventSource' = Num(t.id)]_vars

\* C36: while 'reconnecting' is the state reported, a transport exists or a
\* reopen timer is pending, and a pending timer leads to a new transport
C36_ReopenHappens ==
    /\ [](reported = "reconnecting" => (eventSource # Null \/ timeouts # {}))
    /\ (timeouts # {}) ~> (eventSource # Null /\ transports # {})

\* the timer armed by the fourth error in a row has fired and a new
\* transport is connecting
C36_Witness ==
    /\ last = "reopen"
    /\ retryCount = 4
    /\ timeouts = {}
    /\ \E t \in transports :
           t.readyState = "connecting" /\ eventSource = Num(t.id)

\* C37: the retry counter is in 0..10, the backoff is one of 1000, 2000,
\* 4000, 8000, 16000 and 30000 ms, and the retry counter is 10 only in
\* Disconnected
C37_CounterAndBackoffRanges ==
    /\ retryCount \in 0..10
    /\ backoff \in {1000, 2000, 4000, 8000, 16000, 30000}
    /\ retryCount = 10 =>
           /\ ConnectionState = "disconnected"
           /\ reported = "disconnected"

\* nine errors in a row: the counter is 9, the backoff has reached its cap
\* and the client is still Reconnecting
C37_Witness ==
    /\ retryCount = 9
    /\ backoff = 30000
    /\ ConnectionState = "reconnecting"
    /\ reported = "reconnecting"

\* ------------------------------------------------------------------------
\* Claims about withTimeout (SpecTimeout)
\* ------------------------------------------------------------------------
\* C28: withTimeout settles with whichever comes first: the promise's value
\* (null and undefined included) or rejection reason, unchanged, when the
\* promise settles before the deadline; a rejection whose message holds
\* 'Timeout' and the deadline in ms when the deadline comes first, whatever
\* the promise settles with later
C28_FirstSettlementWins ==
    \A i \in 1..Len(races) :
        LET r == races[i]
        IN /\ r.first = "none" <=> r.result = Unsettled
           /\ (r.first = "promise" /\ r.promise.kind = "fulfil") =>
                  /\ r.result.status = "fulfilled"
                  /\ r.result.value = r.promise.value
           /\ (r.first = "promise" /\ r.promise.kind = "reject") =>
                  /\ r.result.status = "rejected"
                  /\ r.result.reason = r.promise.reason
           /\ r.first = "deadline" =>
                  /\ r.result.status = "rejected"
                  /\ Includes(r.result.reason.message, Timeout)
                  /\ Includes(r.result.reason.message, NumberText(r.ms))

\* a call was rejected by its deadline of 50 ms and its promise was
\* fulfilled with 42 afterwards; another call passed undefined through
C28_Witness ==
    /\ Len(races) = 2
    /\ races[1].first = "deadline"
    /\ races[1].ms = 50
    /\ races[1].promise = [kind |-> "fulfil", value |-> Num(42)]
    /\ races[1].heard
    /\ races[1].result = Rejected(Error(TimeoutMessage(50)))
    /\ races[2].first = "promise"
    /\ races[2].result = Fulfilled(Undefined)

\* C29: a withTimeout call that has settled, by success, by failure or by
\* timeout, has no deadline timer pending, so that when every call made has
\* settled no timer of withTimeout is left
C29_NoTimerAfterSettlement ==
    /\ \A i \in 1..Len(races) :
           races[i].result # Unsettled =>
               \A t \in deadlines : t.id # races[i].timeoutId
    /\ (\A i \in 1..Len(races) : races[i].result # Unsettled) =>
           deadlines = {}

\* two calls have settled, one by the failure of its promise and one by its
\* deadline, and no timer is left
C29_Witness ==
    /\ Len(races) = 2
    /\ races[1].first = "promise"
    /\ races[1].result = Rejected(Error(Boom))
    /\ races[2].first = "deadline"
    /\ deadlines = {}

\* ------------------------------------------------------------------------
\* Claims about GET /api/metrics (SpecRoutes)
\* ------------------------------------------------------------------------
\* C30: GET /api/metrics answers with status 200 whatever happens: with the
\* snapshot when getCurrentMetrics returns, and when it fails with a
\* stand-in whose global status is 'critical', whose cpu, memory, disk and
\* processes are 'unavailable' with null data and whose history is empty
C30_AlwaysAnswers200 ==
    calls > 0 =>
        /\ response # Undefined
        /\ response.statusCode = 200
        /\ pc = "returned" => response.body = snapshot
        /\ pc = "raised" =>
               /\ response.body.status = "critical"
               /\ \A k \in {"cpu", "memory", "disk", "processes"} :
                      /\ response.body[k].status = "unavailable"
                      /\ response.body[k].data = Null
               /\ response.body.history = <<>>
               /\ response.body.timestamp \in 0..now

\* the second request failed after the first had succeeded: the answer is
\* the stand-in, with an empty history although the service has a sample
C30_Witness ==
    /\ calls = 2
    /\ pc = "raised"
    /\ response.statusCode = 200
    /\ response.body.status = "critical"
    /\ response.body.history = <<>>
    /\ snapshot # NoSnapshot
    /\ Len(inserted) = 1
\* ------------------------------------------------------------------------
\* Claims about getDiskUsage (SpecDisk)
\* ------------------------------------------------------------------------
\* C40 as stated: getDiskUsage answers from the cache, without calling the
\* provider, iff a successful fetch was stored less than 5000 ms before the
\* call
C40_FreshSinceStored ==
    \A i \in 1..Len(fetches) :
        LET f == fetches[i]
        IN (f.hit /\ ~f.asked) <=>
               (f.seenStoredAt # Null /\ f.at - f.seenStoredAt.n < 5000)

\* C40: getDiskUsage answers from the cache, without calling the provider,
\* iff the cache holds a list and the call that fetched it started less
\* than 5000 ms before this call; otherwise it calls the provider, a fetch
\* that succeeds makes its list the cache, stamped with the time its call
\* started, and a fetch that fails returns null and leaves the cache alone
C40_FreshSinceFetchStarted ==
    \A i \in 1..Len(fetches) :
        LET f == fetches[i]
        IN /\ f.hit <=> (f.seen.data # Null /\ f.at - f.seen.timestamp < 5000)
           /\ f.hit <=> ~f.asked
           /\ f.hit => f.state = "returned" /\ f.result = f.seen.data
           /\ f.state = "stored" =>
                  /\ f.result \in
                         {Array(<<>>),
                          Array(<<[fs |-> "C:", size |-> 100,
                                   percentage |-> 5013]>>)}
                  /\ f.cacheAfter = [data |-> f.result, timestamp |-> f.at]
           /\ f.state = "failed" =>
                  /\ f.result = Null
                  /\ f.cacheAfter = f.cacheBefore

\* a fetch that started at 0 was stored at 2500; the call at 5000 found the
\* list stored 2500 ms earlier, too old by its stamp, and asked the provider
C40_Witness ==
    /\ Len(fetches) >= 2
    /\ fetches[1].state = "stored"
    /\ fetches[1].at = 0
    /\ fetches[2].at = 5000
    /\ fetches[2].seenStoredAt = Num(2500)
    /\ fetches[2].seen.data # Null
    /\ fetches[2].asked

\* ------------------------------------------------------------------------
\* Claims about the driver and the handlers sharing the service
\* ------------------------------------------------------------------------
\* The getCurrentMetrics invocations started so far, settled or not
Invoked ==
    {[id |-> inv.id, caller |-> inv.caller, res |-> inv.res] : inv \in inflight}
        \cup {[id |-> completed[i].id, caller |-> completed[i].caller,
               res |-> completed[i].res] : i \in 1..Len(completed)}

\* C31: the first data frame written to a connection of the streaming
\* endpoint is the snapshot collected for its connect
C31_ConnectSnapshotFirst ==
    \A inv \in Invoked :
        (inv.caller = "stream" /\ written[inv.res] # <<>>) =>
            written[inv.res][1] = DataFrame(SnapshotOfCall(inv.id))

\* C32: at no time are two getCurrentMetrics invocations in flight on the
\* service
C32_OneInvocationInFlight == Cardinality(inflight) <= 1

\* C39: every tick whose collection completed handed its own snapshot to
\* broadcast exactly once, no other tick handed anything, and the driver
\* still runs whatever collection or broadcast raised
C39_TickHandsItsSnapshotOnce ==
    /\ driving
    /\ \A i \in 1..Len(completed) :
           completed[i].caller = "driver" =>
               Cardinality({j \in 1..Len(handed) :
                                handed[j].id = completed[i].id})
                   = (IF completed[i].outcome = "returned" THEN 1 ELSE 0)
    /\ \A j \in 1..Len(handed) :
           /\ handed[j].data = SnapshotOfCall(handed[j].id)
           /\ \E i \in 1..Len(completed) :
                  /\ completed[i].id = handed[j].id
                  /\ completed[i].caller = "driver"
                  /\ completed[i].outcome = "returned"
    /\ (started < MaxInvocations) => ENABLED tick

\* a tick whose collection raised and a tick whose broadcast raised are
\* followed by a tick that wrote its snapshot to a connection
C39_Witness ==
    /\ Len(completed) = 3
    /\ completed[1].caller = "driver" /\ completed[1].outcome = "raised"
    /\ \E j \in 1..Len(handed), res \in Connections :
           /\ handed[j].id = completed[3].id
           /\ completed[3].caller = "driver"
           /\ written[res] # <<>>
           /\ written[res][Len(written[res])] = DataFrame(handed[j].data)

\* ------------------------------------------------------------------------
\* Claims about overlapping invocations and the ring buffer
\* ------------------------------------------------------------------------
\* C38: after N completed invocations the cursor is N, each completion
\* stored its own sample once, and the buffer holds the samples of the last
\* min(N, 60) completions
C38_OverlapKeepsCursorAndSamples ==
    LET n == Len(completed)
        kept == {history[i] : i \in 1..HISTORY_SIZE} \ {Null}
    IN /\ historyIndex = n
       /\ Len(inserted) = n
       /\ \A i \in 1..n : 
              inserted[i] = SampleOf(CountingResult(completed[i].id), now)
       /\ \A i, j \in 1..n : completed[i].id = completed[j].id => i = j
       /\ kept = {inserted[i] : i \in (n - Min(n, HISTORY_SIZE) + 1)..n}
       /\ Cardinality(kept) = Min(n, HISTORY_SIZE)

\* the buffer has wrapped and two overlapping invocations completed in the
\* reverse of the order they started in
C38_Witness ==
    /\ Len(completed) = 62
    /\ overlaps > 0
    /\ \E i \in 1..61 : completed[i].id > completed[i + 1].id
====
